---- MODULE Spec2Model ----
(***************************************************************************)
(* A model of the three timer classes of bobbthebuilder/async_timers:      *)
(*   - the restart-aware async_timers::instance  (async_timers.hpp 39-150) *)
(*   - the stopped-flag  async_timers::instance  (async_timers.hpp 193-272)*)
(*   - Cpp_Timers                                (cpp_timers.h 36-109)     *)
(* One behaviour exercises one instance of one class (variable "variant"). *)
(* Caller threads issue the public operations and keep the futures they   *)
(* get; every std::async task is a thread of its own.  A step is one       *)
(* access to an atomic or to a plain member, or a critical section of      *)
(* wait_cond_mutex up to its next wait; the critical sections of           *)
(* running_cond_mutex are taken one statement at a time.                   *)
(***************************************************************************)
EXTENDS Integers, FiniteSets, Sequences

\* Number of threads that call the public operations of the instance.
NumCallers == 2
\* Number of start calls (hence of std::async tasks) in a behaviour whose callers
\* use every operation of the instance, set_single_shot() and set_periodic() included.
MaxStarts == 2
\* Number of start calls in a behaviour whose callers use start() and stop() alone.
MaxStartsAlone == 3
\* The values of the callback's return type.
ReturnValues == {"zero", "one"}
\* The value-initialised value of the callback's return type.
DefaultValue == "zero"
\* What a task that has no value to return yet holds.
NoValue == "none"

\* Number of start calls in a behaviour whose callers pass any duration, or whose
\* callback returns any value or throws.
MaxStartsFaulty == 1
\* Number of start calls in a behaviour whose callers change the mode and never stop.
MaxStartsModes == 1
\* The durations a caller passes to start(), in ticks of the clock.
Durations == {-1, 0, 1}
\* The count of callback invocations saturates at this value.
MaxInvocations == 2

Callers == 1..NumCallers
\* MaxStartsAlone is the larger of the two.
Tasks == 1..MaxStartsAlone

VARIABLES
    variant,                    \* which class the instance under test has
    workload,                   \* what the callers do: "mixed" (every operation, positive
                                \* durations), "starts" (start() alone, positive durations)
                                \* "faulty" (start() with any duration, and stop()),
                                \* "results" (start() and stop(), positive durations, a
                                \* callback that returns any value or throws) or
                                \* "modes" (start(), set_single_shot(), set_periodic(),
                                \* positive durations)
    dur,                        \* the duration given to each start call so far, in order
    last_return_of_callable,    \* task -> the value its lambda returns when it returns
    is_running,                 \* std::atomic_bool (restart-aware)
    is_single_shot,             \* std::atomic_bool (restart-aware)
    finished_waiting_for_clock, \* plain bool (restart-aware)
    finished_waiting_for_stop,  \* plain bool (restart-aware)
    stopped,                    \* std::atomic_bool (stopped-flag)
    stop_flag,                  \* std::atomic_bool (Cpp_Timers)
    is_elapsed,                 \* plain bool (stopped-flag, Cpp_Timers)
    kind,                       \* task -> launched by start_one_shot or start_periodic
    running_cond_mutex,         \* std::mutex: the thread that holds it
    cpc,                        \* caller -> position in the operation it runs
    lpc,                        \* task -> position in the std::async lambda
    expired,                    \* task -> the deadline of the clock() of its iteration has passed
    nstarts,                    \* start calls made so far; call k launches task k
    ccur,                       \* caller -> the start call it is executing (0: none)
    \* ---- history (read by no action guard) ----
    h_lastPath,                 \* how the latest start call got past line 53
    h_count,                    \* invocations begun by the task of the latest start call
                                \* (saturating at MaxInvocations)
    h_stop,                     \* stop() since the latest start call began: "none", or
                                \* "overlap" (a start call was in progress), or "quiet"
    h_lastAfterStop,            \* the latest start call began after a stop()
    h_waitAtStop,               \* tasks that were in their deadline wait at a stop() made
                                \* since the latest start call began
    h_periodicRun,              \* the latest start call began in periodic mode, which has
                                \* not been left since ("started"), and a stop() has found
                                \* its task invoking the callback or in the deadline wait
                                \* that follows an invocation ("stopped"); otherwise "no"
    h_oneCaller,                \* every start and stop call so far was made by caller 1
    h_stopEver,                 \* a stop call has been made
    h_periodicEver,             \* set_periodic() has been called
    h_iterMode                  \* task -> is_single_shot was true when its iteration began
                                \* (true outside an iteration; kept in workload "modes")

vars == <<variant, workload, dur, last_return_of_callable, is_running, is_single_shot,
          finished_waiting_for_clock,
          finished_waiting_for_stop, stopped, stop_flag, is_elapsed, kind,
          running_cond_mutex, cpc, lpc, expired, nstarts, ccur,
          h_lastPath, h_count, h_stop, h_lastAfterStop, h_waitAtStop, h_periodicRun,
          h_oneCaller, h_stopEver,
          h_periodicEver, h_iterMode>>

perTask == <<dur, last_return_of_callable>>
flagsRA == <<is_running, is_single_shot, finished_waiting_for_clock, finished_waiting_for_stop>>
mutexes == <<running_cond_mutex>>
hist == <<h_lastPath, h_count, h_stop, h_lastAfterStop, h_waitAtStop, h_periodicRun,
          h_oneCaller, h_stopEver,
          h_periodicEver, h_iterMode>>
\* What the restart-aware instance does not have.
other == <<variant, workload, stopped, stop_flag, is_elapsed, kind>>

\* Thread identities, as mutex owners.
NoThread == <<"none", 0>>
CallerThread(c) == <<"caller", c>>
TaskThread(k) == <<"task", k>>

----------------------------------------------------------------------------
\* Positions of a task and what they mean.

\* Blocked inside wait_cond.wait / wait_cond.wait_until.
WaitingOnWaitCond(l) == {k \in Tasks : l[k] \in {"clock_wait", "elapsed_wait"}}

\* The position a waiter of wait_cond takes when it is woken.
Woken(p) == IF p = "clock_wait" THEN "clock_woken" ELSE "elapsed_woken"

\* wait_cond.notify_one(): wakes one waiter if there is any; the results it can have.
NotifyOneWaitCond(l) ==
    IF WaitingOnWaitCond(l) = {} THEN {l}
    ELSE {[l EXCEPT ![w] = Woken(l[w])] : w \in WaitingOnWaitCond(l)}

\* running_cond.notify_one(): wakes one caller blocked in start(), if any.
NotifyOneRunningCond(p) ==
    IF {c \in Callers : p[c] = "s_wait"} = {} THEN {p}
    ELSE {[p EXCEPT ![w] = "s_woken"] : w \in {c \in Callers : p[c] = "s_wait"}}

\* wait_cond_mutex of the restart-aware instance is held across steps only by a task
\* between the return of its wait_until and line 142.
WaitCondMutexFree == \A j \in Tasks : lpc[j] # "clock_set"

\* A task that has been launched and has not returned.
Active(k) == lpc[k] \notin {"none", "done", "threw"}

\* The task has called clock() and its wait_until has not returned.
InDeadlineWait(p) == p \in {"clock_lock", "clock_wait", "clock_woken"}

\* No start call is between its first and its last step.
NoStartInProgress == \A c \in Callers : cpc[c] = "idle"

Inc(n) == IF n < MaxInvocations THEN n + 1 ELSE n

\* The number of start calls the callers make at most.
StartLimit ==
    CASE workload = "starts" -> MaxStartsAlone
      [] workload \in {"faulty", "results"} -> MaxStartsFaulty
      [] workload = "modes" -> MaxStartsModes
      [] OTHER -> MaxStarts

\* The callers call stop() (stop_periodic()) in this behaviour.
CallsStop == workload # "modes"

\* The callers call set_single_shot() and set_periodic() in this behaviour.
ChangesMode == workload \in {"mixed", "modes"}

\* The values of the callback's return type the callback returns in a workload.
ReturnValuesOf(w) == IF w = "results" THEN ReturnValues ELSE {DefaultValue}

\* The lambda of task k writes one of the values of rs into the value it returns.
Returns(k, rs) ==
    \E r \in rs :
        last_return_of_callable' = [last_return_of_callable EXCEPT ![k] = r]

\* return last_return_of_callable: a local that was never assigned holds any value of
\* its type.
ReturnsLocal(k) ==
    IF last_return_of_callable[k] = NoValue
    THEN Returns(k, ReturnValues)
    ELSE UNCHANGED last_return_of_callable

\* The durations the callers pass.
DurationsOf(w) == IF w = "faulty" THEN Durations ELSE {d \in Durations : d > 0}

\* async_timers.hpp:136-137  now + duration is not after now: wait_until times out
\* as soon as it is called, unless its predicate holds.
DeadlineInPast(k) == dur[k] <= 0

----------------------------------------------------------------------------
\* The predicates and conditions of the restart-aware instance.

\* async_timers.hpp:80  while (is_running.load())
LoopCondition == is_running

\* async_timers.hpp:137-140  predicate of wait_until in clock()
ClockPredicate == ~is_running

\* async_timers.hpp:85-88  predicate of the wait for the clock
ElapsedPredicate == finished_waiting_for_clock

\* async_timers.hpp:90  if (!is_running.load()) break;
StoppedPrematurely == ~is_running

\* A start() that does not wait for the old loop.
StopPredicate_NoWait == TRUE

\* async_timers.hpp:62-65  predicate of the wait for the old loop in start()
StopPredicate == finished_waiting_for_stop

\* A stop() that flips is_running.
StopStore_Toggle == ~is_running

\* async_timers.hpp:117  the value stop() stores into is_running
StopStore == FALSE

----------------------------------------------------------------------------
Variants == {"restart_aware", "stopped_flag", "cpp_timers"}

\* The state after construction.  A member no constructor initialises holds any value.
InitOf(v) ==
    /\ variant = v
    /\ workload \in (CASE v = "restart_aware" ->
                               {"mixed", "starts", "faulty", "results", "modes"}
                       [] v = "stopped_flag" -> {"mixed", "results"}
                       [] OTHER -> {"mixed"})
    /\ dur = << >>
    /\ last_return_of_callable = [k \in Tasks |-> NoValue]
    /\ is_running = FALSE
    /\ is_single_shot = TRUE
    /\ finished_waiting_for_clock \in (IF v = "restart_aware" THEN BOOLEAN ELSE {FALSE})
    /\ finished_waiting_for_stop \in (IF v = "restart_aware" THEN BOOLEAN ELSE {FALSE})
    /\ stopped \in (IF v = "stopped_flag" THEN BOOLEAN ELSE {FALSE})
    /\ stop_flag \in (IF v = "cpp_timers" THEN BOOLEAN ELSE {FALSE})
    /\ is_elapsed = FALSE
    /\ kind = [k \in Tasks |-> "none"]
    /\ running_cond_mutex = NoThread
    /\ cpc = [c \in Callers |-> "idle"]
    /\ lpc = [k \in Tasks |-> "none"]
    /\ expired = [k \in Tasks |-> FALSE]
    /\ nstarts = 0
    /\ ccur = [c \in Callers |-> 0]
    /\ h_lastPath = "none"
    /\ h_count = 0
    /\ h_stop = "none"
    /\ h_lastAfterStop = FALSE
    /\ h_waitAtStop = {}
    /\ h_periodicRun = "no"
    /\ h_oneCaller = TRUE
    /\ h_stopEver = FALSE
    /\ h_periodicEver = FALSE
    /\ h_iterMode = [k \in Tasks |-> TRUE]

Init == \E v \in Variants : InitOf(v)

InitRA == InitOf("restart_aware")

----------------------------------------------------------------------------
\* History kept when a start call begins (its first step).
StartBegins(c, k, path) ==
    /\ nstarts' = k
    /\ h_lastPath' = path
    /\ h_count' = 0
    /\ h_lastAfterStop' = (h_stop # "none")
    /\ h_stop' = "none"
    /\ h_waitAtStop' = {}
    /\ h_periodicRun' = IF is_single_shot THEN "no" ELSE "started"
    /\ h_oneCaller' = (h_oneCaller /\ c = 1)
    /\ UNCHANGED <<h_stopEver, h_periodicEver, h_iterMode>>

\* History kept when stop() is called.  A stop() that overlaps a start call in
\* progress is ordered with that call either way; a "quiet" one is not.
StopHistory(c) ==
    /\ h_stop' = IF NoStartInProgress THEN "quiet" ELSE "overlap"
    /\ h_waitAtStop' = h_waitAtStop \cup {k \in Tasks : InDeadlineWait(lpc[k])}
    /\ h_periodicRun' = IF /\ h_periodicRun = "started"
                           /\ h_count >= 1
                           /\ lpc[nstarts] = "invoke" \/ InDeadlineWait(lpc[nstarts])
                        THEN "stopped" ELSE h_periodicRun
    /\ h_oneCaller' = (h_oneCaller /\ c = 1)
    /\ h_stopEver' = TRUE
    /\ UNCHANGED <<h_lastPath, h_count, h_lastAfterStop, h_periodicEver, h_iterMode>>

\* History kept when task k begins an invocation of its callback.
InvokeHistory(k) ==
    /\ h_count' = IF k = nstarts THEN Inc(h_count) ELSE h_count
    /\ UNCHANGED <<h_lastPath, h_stop, h_lastAfterStop, h_waitAtStop, h_periodicRun,
                   h_oneCaller, h_stopEver, h_periodicEver, h_iterMode>>

\* History kept when task k begins an iteration (line 80 read true) or ends one.
IterationBegins(k) ==
    /\ h_iterMode' = [h_iterMode EXCEPT ![k] = (workload = "modes") => is_single_shot]
    /\ UNCHANGED <<h_lastPath, h_count, h_stop, h_lastAfterStop, h_waitAtStop,
                   h_periodicRun, h_oneCaller, h_stopEver, h_periodicEver>>

IterationEnds(k) ==
    /\ h_iterMode' = [h_iterMode EXCEPT ![k] = TRUE]
    /\ UNCHANGED <<h_lastPath, h_count, h_stop, h_lastAfterStop, h_waitAtStop,
                   h_periodicRun, h_oneCaller, h_stopEver, h_periodicEver>>

----------------------------------------------------------------------------
\* Restart-aware instance: start(), the calling thread.

\* async_timers.hpp:53  is_running.compare_exchange_strong(expected = false, true)
start_cas(c) ==
    /\ variant = "restart_aware"
    /\ cpc[c] = "idle"
    /\ nstarts < StartLimit
    /\ IF ~is_running
       THEN /\ is_running' = TRUE
            /\ cpc' = [cpc EXCEPT ![c] = "s72"]
            /\ StartBegins(c, nstarts + 1, "cas")
       ELSE /\ is_running' = is_running
            /\ cpc' = [cpc EXCEPT ![c] = "s59"]
            /\ StartBegins(c, nstarts + 1, "restart")
    /\ ccur' = [ccur EXCEPT ![c] = nstarts + 1]
    /\ \E d \in DurationsOf(workload) : dur' = Append(dur, d)
    /\ UNCHANGED <<other, last_return_of_callable, is_single_shot,
                   finished_waiting_for_clock, finished_waiting_for_stop, mutexes, lpc,
                   expired>>

\* async_timers.hpp:59  is_running.store(false)
start_store_false(c) ==
    /\ cpc[c] = "s59"
    /\ is_running' = FALSE
    /\ cpc' = [cpc EXCEPT ![c] = "s60"]
    /\ UNCHANGED <<other, perTask, is_single_shot, finished_waiting_for_clock,
                   finished_waiting_for_stop, mutexes, lpc, expired, nstarts, ccur, hist>>

\* async_timers.hpp:60  finished_waiting_for_stop = false (no lock held)
start_reset_finished(c) ==
    /\ cpc[c] = "s60"
    /\ finished_waiting_for_stop' = FALSE
    /\ cpc' = [cpc EXCEPT ![c] = "s61"]
    /\ UNCHANGED <<other, perTask, is_running, is_single_shot, finished_waiting_for_clock,
                   mutexes, lpc, expired, nstarts, ccur, hist>>

\* async_timers.hpp:61-65  lock running_cond_mutex, running_cond.wait(lock, pred):
\* the predicate is tested first; the wait releases the mutex and blocks.
start_lock_wait(c) ==
    /\ cpc[c] = "s61"
    /\ running_cond_mutex = NoThread
    /\ IF StopPredicate
       THEN /\ running_cond_mutex' = CallerThread(c)
            /\ cpc' = [cpc EXCEPT ![c] = "s70"]
       ELSE /\ running_cond_mutex' = NoThread
            /\ cpc' = [cpc EXCEPT ![c] = "s_wait"]
    /\ UNCHANGED <<other, perTask, flagsRA, lpc, expired, nstarts, ccur, hist>>

\* async_timers.hpp:62-65  a woken start() takes the mutex again and tests the predicate
start_rewait(c) ==
    /\ cpc[c] = "s_woken"
    /\ running_cond_mutex = NoThread
    /\ IF StopPredicate
       THEN /\ running_cond_mutex' = CallerThread(c)
            /\ cpc' = [cpc EXCEPT ![c] = "s70"]
       ELSE /\ running_cond_mutex' = NoThread
            /\ cpc' = [cpc EXCEPT ![c] = "s_wait"]
    /\ UNCHANGED <<other, perTask, flagsRA, lpc, expired, nstarts, ccur, hist>>

\* async_timers.hpp:70-71  is_running.store(true); the lock's scope ends
start_store_true(c) ==
    /\ cpc[c] = "s70"
    /\ is_running' = TRUE
    /\ running_cond_mutex' = NoThread
    /\ cpc' = [cpc EXCEPT ![c] = "s72"]
    /\ UNCHANGED <<other, perTask, is_single_shot, finished_waiting_for_clock,
                   finished_waiting_for_stop, lpc, expired,
                   nstarts, ccur, hist>>

\* async_timers.hpp:72-73  finished_waiting_for_clock = false (no lock held);
\* std::async(std::launch::async, ...): the task exists, start() returns its future
start_launch(c) ==
    /\ cpc[c] = "s72"
    /\ finished_waiting_for_clock' = FALSE
    /\ lpc' = [lpc EXCEPT ![ccur[c]] = "while"]
    /\ cpc' = [cpc EXCEPT ![c] = "idle"]
    /\ ccur' = [ccur EXCEPT ![c] = 0]
    /\ UNCHANGED <<other, perTask, is_running, is_single_shot, finished_waiting_for_stop,
                   mutexes, expired, nstarts, hist>>

\* async_timers.hpp:115-118  stop(): is_running.store(false)
stop(c) ==
    /\ variant = "restart_aware"
    /\ CallsStop
    /\ cpc[c] = "idle"
    /\ is_running' = StopStore
    /\ StopHistory(c)
    /\ UNCHANGED <<other, perTask, is_single_shot, finished_waiting_for_clock,
                   finished_waiting_for_stop, mutexes, cpc, lpc, expired, nstarts, ccur>>

\* async_timers.hpp:119-122  set_single_shot()
set_single_shot(c) ==
    /\ variant = "restart_aware"
    /\ ChangesMode
    /\ cpc[c] = "idle"
    /\ is_single_shot' = TRUE
    /\ h_periodicRun' = "no"
    /\ UNCHANGED <<other, perTask, is_running, finished_waiting_for_clock,
                   finished_waiting_for_stop, mutexes, cpc, lpc, expired, nstarts, ccur,
                   h_lastPath, h_count, h_stop, h_lastAfterStop, h_waitAtStop,
                   h_oneCaller, h_stopEver, h_periodicEver, h_iterMode>>

\* async_timers.hpp:123-126  set_periodic()
set_periodic(c) ==
    /\ variant = "restart_aware"
    /\ ChangesMode
    /\ cpc[c] = "idle"
    /\ is_single_shot' = FALSE
    /\ h_periodicEver' = TRUE
    /\ UNCHANGED <<other, perTask, is_running, finished_waiting_for_clock,
                   finished_waiting_for_stop, mutexes, cpc, lpc, expired, nstarts, ccur,
                   h_lastPath, h_count, h_stop, h_lastAfterStop, h_waitAtStop,
                   h_periodicRun, h_oneCaller, h_stopEver, h_iterMode>>

----------------------------------------------------------------------------
\* Restart-aware instance: the task launched by start().
\* A step of a task holds at most one access to a member that another thread may
\* write without the mutex the task holds.

\* async_timers.hpp:80  while (is_running.load())
loop_while(k) ==
    /\ variant = "restart_aware"
    /\ lpc[k] = "while"
    /\ lpc' = [lpc EXCEPT ![k] = IF LoopCondition THEN "clock_lock" ELSE "term_lock"]
    /\ IF LoopCondition THEN IterationBegins(k) ELSE UNCHANGED hist
    /\ UNCHANGED <<other, perTask, flagsRA, mutexes, cpc, expired, nstarts, ccur>>

\* async_timers.hpp:135-140  clock(): lock, take the deadline, wait_until(lock, deadline,
\* pred).  The predicate is tested before any wait: if it holds, wait_until returns with
\* the mutex held; if not, the timed wait releases the mutex, and with a deadline that
\* is not in the future it times out at once and has to take the mutex again.
clock_lock(k) ==
    /\ variant = "restart_aware"
    /\ lpc[k] = "clock_lock"
    /\ WaitCondMutexFree
    /\ expired' = [expired EXCEPT ![k] = ~ClockPredicate /\ DeadlineInPast(k)]
    /\ lpc' = [lpc EXCEPT ![k] = IF ClockPredicate THEN "clock_set"
                                 ELSE IF DeadlineInPast(k) THEN "clock_woken"
                                 ELSE "clock_wait"]
    /\ UNCHANGED <<other, perTask, flagsRA, mutexes, cpc, nstarts, ccur, hist>>

\* The deadline of task k's wait_until passes while it is blocked: the wait times out.
DeadlineExpires(k) ==
    /\ lpc[k] = "clock_wait"
    /\ ~expired[k]
    /\ expired' = [expired EXCEPT ![k] = TRUE]
    /\ lpc' = [lpc EXCEPT ![k] = "clock_woken"]
    /\ UNCHANGED <<other, perTask, flagsRA, mutexes, cpc, nstarts, ccur, hist>>

\* A condition variable may wake a waiter with no notification.
SpuriousWakeup(k) ==
    /\ lpc[k] \in {"clock_wait", "elapsed_wait"}
    /\ lpc' = [lpc EXCEPT ![k] = Woken(lpc[k])]
    /\ UNCHANGED <<other, perTask, flagsRA, mutexes, cpc, expired, nstarts, ccur, hist>>

SpuriousWakeupCaller(c) ==
    /\ cpc[c] = "s_wait"
    /\ cpc' = [cpc EXCEPT ![c] = "s_woken"]
    /\ UNCHANGED <<other, perTask, flagsRA, mutexes, lpc, expired, nstarts, ccur, hist>>

\* async_timers.hpp:137-140  a woken wait_until takes the mutex again; after a timeout
\* it returns whatever the predicate says, otherwise it returns when the predicate holds
clock_rewait(k) ==
    /\ variant = "restart_aware"
    /\ lpc[k] = "clock_woken"
    /\ WaitCondMutexFree
    /\ lpc' = [lpc EXCEPT ![k] = IF expired[k] \/ ClockPredicate
                                 THEN "clock_set" ELSE "clock_wait"]
    /\ UNCHANGED <<other, perTask, flagsRA, mutexes, cpc, expired, nstarts, ccur, hist>>

\* async_timers.hpp:141-142  finished_waiting_for_clock = true; lock.unlock()
clock_set(k) ==
    /\ variant = "restart_aware"
    /\ lpc[k] = "clock_set"
    /\ finished_waiting_for_clock' = TRUE
    /\ lpc' = [lpc EXCEPT ![k] = "clock_notify"]
    /\ UNCHANGED <<other, perTask, is_running, is_single_shot, finished_waiting_for_stop,
                   mutexes, cpc, expired, nstarts, ccur, hist>>

\* async_timers.hpp:143  wait_cond.notify_one(); clock() returns
clock_notify(k) ==
    /\ variant = "restart_aware"
    /\ lpc[k] = "clock_notify"
    /\ lpc' \in NotifyOneWaitCond([lpc EXCEPT ![k] = "elapsed_lock"])
    /\ UNCHANGED <<other, perTask, flagsRA, mutexes, cpc, expired, nstarts, ccur, hist>>

\* async_timers.hpp:84-89  lock, wait_cond.wait(lock, pred), unlock
elapsed_lock(k) ==
    /\ variant = "restart_aware"
    /\ lpc[k] \in {"elapsed_lock", "elapsed_woken"}
    /\ WaitCondMutexFree
    /\ lpc' = [lpc EXCEPT ![k] = IF ElapsedPredicate THEN "check" ELSE "elapsed_wait"]
    /\ UNCHANGED <<other, perTask, flagsRA, mutexes, cpc, expired, nstarts, ccur, hist>>

\* async_timers.hpp:90-98  if (!is_running.load()) break; otherwise std::invoke begins
loop_check(k) ==
    /\ variant = "restart_aware"
    /\ lpc[k] = "check"
    /\ IF StoppedPrematurely
       THEN /\ lpc' = [lpc EXCEPT ![k] = "term_lock"]
            /\ expired' = [expired EXCEPT ![k] = FALSE]
            /\ IterationEnds(k)
       ELSE /\ lpc' = [lpc EXCEPT ![k] = "invoke"]
            /\ UNCHANGED expired
            /\ InvokeHistory(k)
    /\ UNCHANGED <<other, perTask, flagsRA, mutexes, cpc, nstarts, ccur>>

\* async_timers.hpp:98-106  the callback returns; if (is_single_shot.load()) break;
loop_invoke_return(k) ==
    /\ variant = "restart_aware"
    /\ lpc[k] = "invoke"
    /\ lpc' = [lpc EXCEPT ![k] = IF is_single_shot THEN "term_lock" ELSE "while"]
    /\ expired' = [expired EXCEPT ![k] = FALSE]
    /\ Returns(k, ReturnValuesOf(workload))
    /\ IterationEnds(k)
    /\ UNCHANGED <<other, dur, flagsRA, mutexes, cpc, nstarts, ccur>>

\* async_timers.hpp:98  std::invoke throws: no handler in the lambda, so the exception
\* leaves it at once and is stored in the future; lines 99-112 are not executed
loop_invoke_throw(k) ==
    /\ variant = "restart_aware"
    /\ workload = "results"
    /\ lpc[k] = "invoke"
    /\ lpc' = [lpc EXCEPT ![k] = "threw"]
    /\ expired' = [expired EXCEPT ![k] = FALSE]
    /\ IterationEnds(k)
    /\ UNCHANGED <<other, perTask, flagsRA, mutexes, cpc, nstarts, ccur>>

\* async_timers.hpp:108-110  std::lock_guard lk(running_cond_mutex);
\* finished_waiting_for_stop = true; running_cond.notify_one()
term_lock(k) ==
    /\ variant = "restart_aware"
    /\ lpc[k] = "term_lock"
    /\ running_cond_mutex = NoThread
    /\ running_cond_mutex' = TaskThread(k)
    /\ finished_waiting_for_stop' = TRUE
    /\ cpc' \in NotifyOneRunningCond(cpc)
    /\ lpc' = [lpc EXCEPT ![k] = "term_store"]
    /\ UNCHANGED <<other, perTask, is_running, is_single_shot, finished_waiting_for_clock,
                   expired, nstarts, ccur, hist>>

\* async_timers.hpp:111  is_running.store(false)
term_store(k) ==
    /\ variant = "restart_aware"
    /\ lpc[k] = "term_store"
    /\ is_running' = FALSE
    /\ lpc' = [lpc EXCEPT ![k] = "term_return"]
    /\ UNCHANGED <<other, perTask, is_single_shot, finished_waiting_for_clock,
                   finished_waiting_for_stop, mutexes, cpc, expired, nstarts, ccur, hist>>

\* async_timers.hpp:112  return last_return_of_callable: the value is read, the
\* lock_guard releases running_cond_mutex
term_return(k) ==
    /\ variant = "restart_aware"
    /\ lpc[k] = "term_return"
    /\ running_cond_mutex' = NoThread
    /\ lpc' = [lpc EXCEPT ![k] = "term_ready"]
    /\ ReturnsLocal(k)
    /\ UNCHANGED <<other, dur, flagsRA, cpc, expired, nstarts, ccur, hist>>

\* async_timers.hpp:73-113  the lambda has returned: std::async stores the value in the
\* shared state and the future becomes ready
term_ready(k) ==
    /\ variant = "restart_aware"
    /\ lpc[k] = "term_ready"
    /\ lpc' = [lpc EXCEPT ![k] = "done"]
    /\ UNCHANGED <<other, perTask, flagsRA, mutexes, cpc, expired, nstarts, ccur, hist>>

----------------------------------------------------------------------------
\* The stopped-flag instance (async_timers.hpp 193-272).

\* async_timers.hpp:261  predicate of wait_until in clock()
SfClockPredicate == stopped

\* async_timers.hpp:214 and 240  predicate of the wait for the clock
SfElapsedPredicate == is_elapsed

\* async_timers.hpp:217  if (stopped) return {};
SfStoppedBeforeInvoke == stopped

\* async_timers.hpp:233  while (!stopped)
SfLoopCondition == ~stopped

\* async_timers.hpp:206-207  start_one_shot(): stopped = false; std::async(...)
sf_start_one_shot(c) ==
    /\ variant = "stopped_flag"
    /\ cpc[c] = "idle"
    /\ nstarts < StartLimit
    /\ stopped' = FALSE
    /\ lpc' = [lpc EXCEPT ![nstarts + 1] = "clock_lock"]
    /\ kind' = [kind EXCEPT ![nstarts + 1] = "one_shot"]
    /\ StartBegins(c, nstarts + 1, "direct")
    /\ \E d \in DurationsOf(workload) : dur' = Append(dur, d)
    /\ UNCHANGED last_return_of_callable
    /\ UNCHANGED <<variant, workload, flagsRA, stop_flag, is_elapsed, mutexes, cpc,
                   expired, ccur>>

\* async_timers.hpp:229-230  start_periodic(): stopped = false; std::async(...)
sf_start_periodic(c) ==
    /\ variant = "stopped_flag"
    /\ cpc[c] = "idle"
    /\ nstarts < StartLimit
    /\ stopped' = FALSE
    /\ lpc' = [lpc EXCEPT ![nstarts + 1] = "while"]
    /\ kind' = [kind EXCEPT ![nstarts + 1] = "periodic"]
    /\ StartBegins(c, nstarts + 1, "direct")
    /\ \E d \in DurationsOf(workload) : dur' = Append(dur, d)
    /\ UNCHANGED last_return_of_callable
    /\ UNCHANGED <<variant, workload, flagsRA, stop_flag, is_elapsed, mutexes, cpc,
                   expired, ccur>>

\* async_timers.hpp:249-252  stop(): stopped = true
sf_stop(c) ==
    /\ variant = "stopped_flag"
    /\ cpc[c] = "idle"
    /\ stopped' = TRUE
    /\ StopHistory(c)
    /\ UNCHANGED <<variant, workload, perTask, flagsRA, stop_flag, is_elapsed, kind, mutexes, cpc, lpc,
                   expired, nstarts, ccur>>

\* async_timers.hpp:233 and 245  while (!stopped) ... return last_return_of_callable
sf_loop_while(k) ==
    /\ variant = "stopped_flag"
    /\ lpc[k] = "while"
    /\ lpc' = [lpc EXCEPT ![k] = IF SfLoopCondition THEN "clock_lock" ELSE "done"]
    /\ IF SfLoopCondition THEN UNCHANGED last_return_of_callable ELSE ReturnsLocal(k)
    /\ UNCHANGED <<other, dur, flagsRA, mutexes, cpc, expired, nstarts, ccur, hist>>

\* async_timers.hpp:255-264  clock(): lock, take the deadline, wait_until(lock, t, pred);
\* if the predicate holds at once: is_elapsed = true, unlock.  is_elapsed is written
\* here only, under wait_cond_mutex.
sf_clock_lock(k) ==
    /\ variant = "stopped_flag"
    /\ lpc[k] = "clock_lock"
    /\ expired' = [expired EXCEPT ![k] = FALSE]
    /\ is_elapsed' = (is_elapsed \/ SfClockPredicate)
    /\ lpc' = [lpc EXCEPT ![k] = IF SfClockPredicate THEN "clock_notify" ELSE "clock_wait"]
    /\ UNCHANGED <<variant, workload, perTask, flagsRA, stopped, stop_flag, kind, mutexes,
                   cpc, nstarts, ccur, hist>>

\* async_timers.hpp:259-264  a woken wait_until takes the mutex again and returns after a
\* timeout or when the predicate holds; then is_elapsed = true, unlock
sf_clock_rewait(k) ==
    /\ variant = "stopped_flag"
    /\ lpc[k] = "clock_woken"
    /\ is_elapsed' = (is_elapsed \/ expired[k] \/ SfClockPredicate)
    /\ lpc' = [lpc EXCEPT ![k] = IF expired[k] \/ SfClockPredicate
                                 THEN "clock_notify" ELSE "clock_wait"]
    /\ UNCHANGED <<variant, workload, perTask, flagsRA, stopped, stop_flag, kind, mutexes,
                   cpc, expired, nstarts, ccur, hist>>

\* async_timers.hpp:265  wait_cond.notify_one(); clock() returns
sf_clock_notify(k) ==
    /\ variant = "stopped_flag"
    /\ lpc[k] = "clock_notify"
    /\ lpc' \in NotifyOneWaitCond([lpc EXCEPT ![k] = "elapsed_lock"])
    /\ UNCHANGED <<other, perTask, flagsRA, mutexes, cpc, expired, nstarts, ccur, hist>>

\* async_timers.hpp:210-216 and 236-242  lock, wait_cond.wait(lock, pred), unlock.
\* start_periodic's loop then invokes the callback with no test of stopped.
sf_elapsed_lock(k) ==
    /\ variant = "stopped_flag"
    /\ lpc[k] \in {"elapsed_lock", "elapsed_woken"}
    /\ IF ~SfElapsedPredicate
       THEN /\ lpc' = [lpc EXCEPT ![k] = "elapsed_wait"]
            /\ UNCHANGED hist
       ELSE IF kind[k] = "one_shot"
       THEN /\ lpc' = [lpc EXCEPT ![k] = "check"]
            /\ UNCHANGED hist
       ELSE /\ lpc' = [lpc EXCEPT ![k] = "invoke"]
            /\ InvokeHistory(k)
    /\ UNCHANGED <<other, perTask, flagsRA, mutexes, cpc, expired, nstarts, ccur>>

\* async_timers.hpp:217-221  start_one_shot: if (stopped) return {}; otherwise
\* std::invoke begins
sf_check(k) ==
    /\ variant = "stopped_flag"
    /\ lpc[k] = "check"
    /\ IF SfStoppedBeforeInvoke
       THEN /\ lpc' = [lpc EXCEPT ![k] = "done"]
            /\ expired' = [expired EXCEPT ![k] = FALSE]
            /\ UNCHANGED hist
            /\ Returns(k, {DefaultValue})
       ELSE /\ lpc' = [lpc EXCEPT ![k] = "invoke"]
            /\ UNCHANGED expired
            /\ InvokeHistory(k)
            /\ UNCHANGED last_return_of_callable
    /\ UNCHANGED <<other, dur, flagsRA, mutexes, cpc, nstarts, ccur>>

\* async_timers.hpp:221 and 243-244  the callback returns
sf_invoke_return(k) ==
    /\ variant = "stopped_flag"
    /\ lpc[k] = "invoke"
    /\ lpc' = [lpc EXCEPT ![k] = IF kind[k] = "one_shot" THEN "done" ELSE "while"]
    /\ expired' = [expired EXCEPT ![k] = FALSE]
    /\ Returns(k, ReturnValuesOf(workload))
    /\ UNCHANGED <<other, dur, flagsRA, mutexes, cpc, nstarts, ccur, hist>>

----------------------------------------------------------------------------
\* Cpp_Timers (cpp_timers.h 36-109).

\* cpp_timers.h:57 and 80  predicate of the wait for the clock
CtElapsedPredicate == is_elapsed

\* cpp_timers.h:72  while (stop_flag)
CtLoopCondition == stop_flag

\* cpp_timers.h:49  start_one_shot(): std::async(...)
ct_start_one_shot(c) ==
    /\ variant = "cpp_timers"
    /\ cpc[c] = "idle"
    /\ nstarts < StartLimit
    /\ lpc' = [lpc EXCEPT ![nstarts + 1] = "clock_lock"]
    /\ kind' = [kind EXCEPT ![nstarts + 1] = "one_shot"]
    /\ StartBegins(c, nstarts + 1, "direct")
    /\ \E d \in DurationsOf(workload) : dur' = Append(dur, d)
    /\ UNCHANGED last_return_of_callable
    /\ UNCHANGED <<variant, workload, flagsRA, stopped, stop_flag, is_elapsed, mutexes, cpc,
                   expired, ccur>>

\* cpp_timers.h:68  start_periodic(): std::async(...)
ct_start_periodic(c) ==
    /\ variant = "cpp_timers"
    /\ cpc[c] = "idle"
    /\ nstarts < StartLimit
    /\ lpc' = [lpc EXCEPT ![nstarts + 1] = "flag_set"]
    /\ kind' = [kind EXCEPT ![nstarts + 1] = "periodic"]
    /\ StartBegins(c, nstarts + 1, "direct")
    /\ \E d \in DurationsOf(workload) : dur' = Append(dur, d)
    /\ UNCHANGED last_return_of_callable
    /\ UNCHANGED <<variant, workload, flagsRA, stopped, stop_flag, is_elapsed, mutexes, cpc,
                   expired, ccur>>

\* cpp_timers.h:89-92  stop_periodic(): stop_flag = false
ct_stop_periodic(c) ==
    /\ variant = "cpp_timers"
    /\ cpc[c] = "idle"
    /\ stop_flag' = FALSE
    /\ StopHistory(c)
    /\ UNCHANGED <<variant, workload, perTask, flagsRA, stopped, is_elapsed, kind, mutexes, cpc, lpc,
                   expired, nstarts, ccur>>

\* cpp_timers.h:71  stop_flag = true, in the task
ct_flag_set(k) ==
    /\ variant = "cpp_timers"
    /\ lpc[k] = "flag_set"
    /\ stop_flag' = TRUE
    /\ lpc' = [lpc EXCEPT ![k] = "while"]
    /\ UNCHANGED <<variant, workload, perTask, flagsRA, stopped, is_elapsed, kind, mutexes, cpc, expired,
                   nstarts, ccur, hist>>

\* cpp_timers.h:72 and 85  while (stop_flag) ... return last_return_of_callable
ct_loop_while(k) ==
    /\ variant = "cpp_timers"
    /\ lpc[k] = "while"
    /\ lpc' = [lpc EXCEPT ![k] = IF CtLoopCondition THEN "clock_lock" ELSE "done"]
    /\ IF CtLoopCondition THEN UNCHANGED last_return_of_callable ELSE ReturnsLocal(k)
    /\ UNCHANGED <<other, dur, flagsRA, mutexes, cpc, expired, nstarts, ccur, hist>>

\* cpp_timers.h:95-99  clock(): lock, take the deadline, wait_until(lock, t) with no
\* predicate: the wait releases the mutex and blocks
ct_clock_lock(k) ==
    /\ variant = "cpp_timers"
    /\ lpc[k] = "clock_lock"
    /\ expired' = [expired EXCEPT ![k] = FALSE]
    /\ lpc' = [lpc EXCEPT ![k] = "clock_wait"]
    /\ UNCHANGED <<other, perTask, flagsRA, mutexes, cpc, nstarts, ccur, hist>>

\* cpp_timers.h:99-101  wait_until returns on any wakeup, once it holds the mutex again;
\* then is_elapsed = true, unlock
ct_clock_rewait(k) ==
    /\ variant = "cpp_timers"
    /\ lpc[k] = "clock_woken"
    /\ is_elapsed' = TRUE
    /\ lpc' = [lpc EXCEPT ![k] = "clock_notify"]
    /\ UNCHANGED <<variant, workload, perTask, flagsRA, stopped, stop_flag, kind, mutexes,
                   cpc, expired, nstarts, ccur, hist>>

\* cpp_timers.h:102  wait_cond.notify_one(); clock() returns
ct_clock_notify(k) ==
    /\ variant = "cpp_timers"
    /\ lpc[k] = "clock_notify"
    /\ lpc' \in NotifyOneWaitCond([lpc EXCEPT ![k] = "elapsed_lock"])
    /\ UNCHANGED <<other, perTask, flagsRA, mutexes, cpc, expired, nstarts, ccur, hist>>

\* cpp_timers.h:53-60 and 76-83  lock, wait_cond.wait(lock, pred), unlock; std::invoke begins
ct_elapsed_lock(k) ==
    /\ variant = "cpp_timers"
    /\ lpc[k] \in {"elapsed_lock", "elapsed_woken"}
    /\ IF ~CtElapsedPredicate
       THEN /\ lpc' = [lpc EXCEPT ![k] = "elapsed_wait"]
            /\ UNCHANGED expired
            /\ UNCHANGED hist
       ELSE /\ lpc' = [lpc EXCEPT ![k] = "invoke"]
            /\ UNCHANGED expired
            /\ InvokeHistory(k)
    /\ UNCHANGED <<other, perTask, flagsRA, mutexes, cpc, nstarts, ccur>>

\* cpp_timers.h:60 and 83-84  the callback returns
ct_invoke_return(k) ==
    /\ variant = "cpp_timers"
    /\ lpc[k] = "invoke"
    /\ lpc' = [lpc EXCEPT ![k] = IF kind[k] = "one_shot" THEN "done" ELSE "while"]
    /\ expired' = [expired EXCEPT ![k] = FALSE]
    /\ Returns(k, ReturnValuesOf(workload))
    /\ UNCHANGED <<other, dur, flagsRA, mutexes, cpc, nstarts, ccur, hist>>

----------------------------------------------------------------------------
\* The next-state relations: of each class, and of the instance under test.

\* What the clock and the condition variables do on their own.
Wakeups ==
    \/ \E k \in Tasks : DeadlineExpires(k)
    \/ \E k \in Tasks : SpuriousWakeup(k)
    \/ \E c \in Callers : SpuriousWakeupCaller(c)

NextRA ==
    \/ \E c \in Callers :
         \/ start_cas(c)
         \/ start_store_false(c)
         \/ start_reset_finished(c)
         \/ start_lock_wait(c)
         \/ start_rewait(c)
         \/ start_store_true(c)
         \/ start_launch(c)
         \/ stop(c)
         \/ set_single_shot(c)
         \/ set_periodic(c)
    \/ \E k \in Tasks :
         \/ loop_while(k)
         \/ clock_lock(k)
         \/ clock_rewait(k)
         \/ clock_set(k)
         \/ clock_notify(k)
         \/ elapsed_lock(k)
         \/ loop_check(k)
         \/ loop_invoke_return(k)
         \/ loop_invoke_throw(k)
         \/ term_lock(k)
         \/ term_store(k)
         \/ term_return(k)
         \/ term_ready(k)

NextSF ==
    \/ \E c \in Callers :
         \/ sf_start_one_shot(c)
         \/ sf_start_periodic(c)
         \/ sf_stop(c)
    \/ \E k \in Tasks :
         \/ sf_loop_while(k)
         \/ sf_clock_lock(k)
         \/ sf_clock_rewait(k)
         \/ sf_clock_notify(k)
         \/ sf_elapsed_lock(k)
         \/ sf_check(k)
         \/ sf_invoke_return(k)

NextCT ==
    \/ \E c \in Callers :
         \/ ct_start_one_shot(c)
         \/ ct_start_periodic(c)
         \/ ct_stop_periodic(c)
    \/ \E k \in Tasks :
         \/ ct_flag_set(k)
         \/ ct_loop_while(k)
         \/ ct_clock_lock(k)
         \/ ct_clock_rewait(k)
         \/ ct_clock_notify(k)
         \/ ct_elapsed_lock(k)
         \/ ct_invoke_return(k)

Next == NextRA \/ NextSF \/ NextCT \/ Wakeups

Spec == Init /\ [][Next]_vars

\* The restart-aware instance alone.
SpecRA == InitRA /\ [][NextRA \/ Wakeups]_vars

\* What a task does when it is scheduled, and the passing of its deadline.
TaskRun(k) ==
    \/ loop_while(k)
    \/ clock_lock(k)
    \/ clock_rewait(k)
    \/ clock_set(k)
    \/ clock_notify(k)
    \/ elapsed_lock(k)
    \/ loop_check(k)
    \/ loop_invoke_return(k)
    \/ loop_invoke_throw(k)
    \/ term_lock(k)
    \/ term_store(k)
    \/ term_return(k)
    \/ term_ready(k)
    \/ DeadlineExpires(k)

\* What a caller inside start() does when it is scheduled.
StartRun(c) ==
    \/ start_store_false(c)
    \/ start_reset_finished(c)
    \/ start_lock_wait(c)
    \/ start_rewait(c)
    \/ start_store_true(c)
    \/ start_launch(c)

\* The restart-aware instance with every thread scheduled again and again, every
\* deadline expiring and every callback returning.  Nothing obliges a caller to make
\* a new call, and nothing obliges a condition variable to wake spuriously.
FairRA ==
    /\ SpecRA
    /\ \A k \in Tasks : WF_vars(TaskRun(k))
    /\ \A c \in Callers : WF_vars(StartRun(c))

----------------------------------------------------------------------------
\* Vocabulary of the properties.

RA == variant = "restart_aware"

\* The task is in the while loop of lines 80-107.
InLoop(k) == lpc[k] \in {"while", "clock_lock", "clock_wait", "clock_woken", "clock_set",
                         "clock_notify", "elapsed_lock", "elapsed_wait", "elapsed_woken",
                         "check", "invoke"}

\* The task is in an iteration of that loop: it has passed the test of line 80.
InIteration(k) == InLoop(k) /\ lpc[k] # "while"

\* The task has set finished_waiting_for_stop and cleared is_running (lines 108-111).
Terminated(k) == lpc[k] \in {"term_return", "term_ready", "done"}

\* The future start() returned for task k is ready.
ResultReady(k) == lpc[k] \in {"done", "threw"}

\* What the future of task k holds once it is ready.
Result(k) == IF lpc[k] = "threw" THEN "exception" ELSE last_return_of_callable[k]

\* A stop() was called with no start call in progress, and none has begun since.
QuietStop == h_stop = "quiet"

\* The members of the restart-aware instance and where its threads are.
ProgramStateRA == <<is_running, is_single_shot, finished_waiting_for_clock,
                    finished_waiting_for_stop, running_cond_mutex, cpc, lpc, expired>>

----------------------------------------------------------------------------
\* C1: in the restart-aware instance at most one task launched by start() is in
\* its wait-invoke loop at any time, whatever the interleaving of the calls.
C1_AtMostOneLoop ==
    (RA /\ ~h_stopEver) => Cardinality({k \in Tasks : InIteration(k)}) <= 1

\* C2: when one caller thread has called stop() and then start(), the loop the
\* start() launched never runs while an older loop is still between its deadline
\* wait and its termination bookkeeping.
C2_StopThenStartWaitsForOldLoop ==
    (RA /\ h_oneCaller /\ h_lastAfterStop /\ nstarts > 0)
        => \A j \in Tasks :
              (j < nstarts /\ lpc[nstarts] \notin {"none", "done"})
                  => ~(InIteration(j) \/ lpc[j] = "term_lock")

\* C3: with every start() issued by one caller thread and no stop(), a loop is in
\* or past its first deadline wait only when every loop launched before it has
\* set finished_waiting_for_stop and cleared is_running under running_cond_mutex.
C3_RestartOrdering ==
    (RA /\ h_oneCaller /\ ~h_stopEver)
        => \A j, k \in Tasks :
              (j < k /\ lpc[k] \notin {"none", "while"}) => Terminated(j)

\* C3 happens: a start() that found a loop running has launched its loop, which is
\* blocked in its first deadline wait, and the older loop has returned.
C3_Witness ==
    /\ RA /\ h_oneCaller /\ ~h_stopEver /\ h_lastPath = "restart"
    /\ nstarts > 1
    /\ lpc[nstarts] = "clock_wait"
    /\ \A j \in Tasks : j < nstarts => lpc[j] = "done"

\* C4: a start() blocked in running_cond.wait with its predicate false always has
\* a loop left that will set finished_waiting_for_stop, or another call in progress
\* that will launch one: it is never left with nothing to wake it.
C4_StartNeverBlockedForever ==
    RA => \A c \in Callers :
            (cpc[c] \in {"s_wait", "s_woken"} /\ ~finished_waiting_for_stop)
                => \/ \E k \in Tasks : Active(k)
                   \/ \E d \in Callers : d # c /\ cpc[d] # "idle"

\* C5: a one-shot timer that was in its deadline wait when stop() was called never
\* invokes its callback, as long as no start call begins after that stop(): the task
\* of start() of a restart-aware instance that was never put in periodic mode, and the
\* task of start_one_shot() of the stopped-flag instance.
C5_StoppedOneShotNeverInvokes ==
    \A k \in h_waitAtStop :
        ((RA /\ ~h_periodicEver) \/ (variant = "stopped_flag" /\ kind[k] = "one_shot"))
            => lpc[k] # "invoke"

\* C6: once the start() that was issued after a stop() has launched its loop, no
\* older loop of the restart-aware instance begins an invocation of its callback.
C6_OldCallbackNeverInvokedAfterRestart ==
    [][(RA /\ h_lastAfterStop /\ nstarts > 0 /\ lpc[nstarts] # "none")
          => \A j \in Tasks :
                (j < nstarts /\ lpc'[j] = "invoke") => lpc[j] = "invoke"]_vars

\* C7: in the restart-aware instance, when the latest start() was made in periodic
\* mode and stop() was called while its loop was invoking the callback or was in the
\* deadline wait that follows an invocation, then, as long as no start call begins
\* after that stop(), the loop begins no further invocation and can still reach its
\* return: it is not left waiting for finished_waiting_for_clock with is_running
\* false, no start call in progress and no loop in clock() to set the flag.
C7_StopEndsPeriodicLoop ==
    /\ [][(RA /\ h_periodicRun = "stopped" /\ h_periodicRun' = "stopped")
             => (lpc'[nstarts] = "invoke" => lpc[nstarts] = "invoke")]_vars
    /\ []((RA /\ h_periodicRun = "stopped")
             => ((/\ lpc[nstarts] \in {"elapsed_wait", "elapsed_woken"}
                  /\ ~finished_waiting_for_clock
                  /\ ~is_running
                  /\ NoStartInProgress)
                    => \E j \in Tasks : InDeadlineWait(lpc[j]) \/ lpc[j] = "clock_set"))

\* C8: a start_periodic() task of the stopped-flag instance or of Cpp_Timers that
\* was in its deadline wait when stop() / stop_periodic() was called does not invoke
\* its callback when that wait ends.
C8_PeriodicStopInWaitSuppressesInvoke ==
    \A k \in h_waitAtStop :
        (variant \in {"stopped_flag", "cpp_timers"} /\ kind[k] = "periodic")
            => lpc[k] # "invoke"

\* C9: in single-shot mode, the loop of a start() after which no stop() and no start()
\* was issued invokes its callback only after its deadline has expired, at most
\* once, and has invoked it once when it returns.
C9_LastOneShotInvokedExactlyOnce ==
    (RA /\ ~h_periodicEver /\ h_stop = "none" /\ nstarts > 0)
        => /\ lpc[nstarts] = "invoke" => expired[nstarts]
           /\ h_count <= 1
           /\ lpc[nstarts] = "done" => h_count = 1

\* C10: after a stop() on a restart-aware instance with an active loop, with no
\* start call in progress and as long as none begins, every active loop can still
\* reach its return, and once a result is ready is_running is false and
\* finished_waiting_for_stop is true.  A loop cannot reach its return when it waits
\* for finished_waiting_for_clock and no loop is in clock() to set it: no start call
\* is there to launch another.
C10_StoppedLoopsTerminate ==
    (RA /\ QuietStop)
        => /\ \A k \in Tasks :
                (lpc[k] \in {"elapsed_wait", "elapsed_woken"} /\ ~finished_waiting_for_clock)
                    => \E j \in Tasks : InDeadlineWait(lpc[j]) \/ lpc[j] = "clock_set"
           /\ (\E k \in Tasks : ResultReady(k))
                => (~is_running /\ finished_waiting_for_stop)

\* C11: stop() of the restart-aware instance can be called by an idle caller in every
\* state, whoever holds a mutex; it leaves is_running false and changes nothing else,
\* so a second stop() right after it, or a stop() on an instance whose is_running is
\* false, changes nothing at all.
C11_StopIdempotent ==
    /\ [](\A c \in Callers :
            (RA /\ CallsStop /\ cpc[c] = "idle") => ENABLED stop(c))
    /\ [][\A c \in Callers :
            stop(c) => /\ ~is_running'
                       /\ UNCHANGED <<is_single_shot, finished_waiting_for_clock,
                                      finished_waiting_for_stop, running_cond_mutex,
                                      cpc, lpc, expired>>
                       /\ ~is_running => UNCHANGED ProgramStateRA]_vars

\* C11 happens: stop() has been called, is_running is false, a task holds
\* running_cond_mutex and a loop is still blocked in its deadline wait: a further
\* stop() is possible here and changes nothing.
C11_Witness ==
    /\ RA /\ QuietStop /\ ~is_running
    /\ running_cond_mutex # NoThread
    /\ \E k \in Tasks : lpc[k] = "clock_wait"

\* C12: a start() of the restart-aware instance that was given a negative duration
\* launches no loop, so its callback is never invoked.
C12_NegativeDurationRejected ==
    RA => \A k \in 1..Len(dur) : dur[k] < 0 => lpc[k] = "none"


\* C13: when the callback of the restart-aware instance throws, the loop still does
\* its termination bookkeeping: once the task of the latest start call has ended by
\* the exception, is_running is false and finished_waiting_for_stop is true.
C13_ThrowStillDoesBookkeeping ==
    RA => \A k \in Tasks :
            (k = nstarts /\ lpc[k] = "threw") => (~is_running /\ finished_waiting_for_stop)

\* C14: a one-shot that was cancelled (its task returned without an invocation)
\* resolves its future to an outcome that is none of the values the callback's
\* return type has, in start() of the restart-aware instance and in
\* start_one_shot() of the stopped-flag instance.
C14_CancelledResultDistinguishable ==
    \A k \in Tasks :
        ( /\ k = nstarts /\ lpc[k] = "done" /\ h_count = 0
          /\ \/ RA /\ ~h_periodicEver
             \/ variant = "stopped_flag" /\ kind[k] = "one_shot" )
        => Result(k) \notin ReturnValues


\* C15: a set_single_shot() or set_periodic() made while an iteration of the
\* restart-aware loop is under way does not change whether that iteration is the
\* last: after the callback returns, the loop leaves by the single-shot break exactly
\* when the mode was single-shot as the iteration began.
C15_ModeChangeAppliesNextIteration ==
    [][\A k \in Tasks :
          (workload = "modes" /\ loop_invoke_return(k))
              => ((lpc'[k] = "term_lock") <=> h_iterMode[k])]_vars


\* C16: a stop() of the restart-aware instance made while the loop is blocked in the
\* deadline wait of clock() ends that wait: once stop() has returned, a task that was
\* in the wait is no longer blocked in it.
C16_StopWakesDeadlineWait ==
    (RA /\ QuietStop) => \A k \in h_waitAtStop : lpc[k] # "clock_wait"


\* C17: in Cpp_Timers the callback of a task is never invoked before the deadline of
\* the clock() of its iteration has passed, whatever wakes the wait.
C17_NoInvokeBeforeDeadline ==
    variant = "cpp_timers" => \A k \in Tasks : lpc[k] = "invoke" => expired[k]


\* The threads whose next step reads or writes finished_waiting_for_stop: start() at
\* line 60 (write), start() at the predicate of lines 62-65 (read), the task at
\* line 109 (write).
StopFlagAccessors ==
    {CallerThread(c) : c \in {x \in Callers : cpc[x] \in {"s60", "s61", "s_woken"}}}
        \cup {TaskThread(k) : k \in {x \in Tasks : lpc[x] = "term_lock"}}

\* Those of them whose access is made without running_cond_mutex: line 60.
StopFlagUnlocked == {CallerThread(c) : c \in {x \in Callers : cpc[x] = "s60"}}

\* The threads whose next step reads or writes finished_waiting_for_clock: start() at
\* line 72 (write), the task at the predicate of lines 84-89 (read), the task in
\* clock() whose wait_until has returned (write, line 141).
ClockFlagAccessors ==
    {CallerThread(c) : c \in {x \in Callers : cpc[x] = "s72"}}
        \cup {TaskThread(k) : k \in {x \in Tasks :
                 lpc[x] \in {"elapsed_lock", "elapsed_woken", "clock_set"}}}

\* Those of them whose access is made without wait_cond_mutex: line 72.
ClockFlagUnlocked == {CallerThread(c) : c \in {x \in Callers : cpc[x] = "s72"}}

\* C18: in the restart-aware instance no thread accesses finished_waiting_for_stop
\* without running_cond_mutex or finished_waiting_for_clock without wait_cond_mutex,
\* so that no thread is about to write one of the flags outside its mutex while
\* another thread is about to read or write the same flag.
C18_FlagsAccessedUnderTheirMutex ==
    RA => /\ \A t \in StopFlagUnlocked : StopFlagAccessors \ {t} = {}
          /\ \A t \in ClockFlagUnlocked : ClockFlagAccessors \ {t} = {}


\* C19: in Cpp_Timers a stop_periodic() made after start_periodic() has returned is
\* never lost: once it has returned, and as long as no start call follows it, no
\* periodic task that is past its start-up finds stop_flag true, so each leaves its
\* loop at its next test of the flag.
C19_StopPeriodicNeverLost ==
    (variant = "cpp_timers" /\ QuietStop) =>
        \A k \in Tasks :
            (kind[k] = "periodic" /\ lpc[k] \notin {"none", "flag_set", "done"})
                => ~stop_flag

====
